---- MODULE Spec2Model ----
(***************************************************************************)
(* A model of build.go, the Android package build orchestrator: flag and   *)
(* environment handling, toolchain resolution (newToolchain,               *)
(* initBuildTools, initPlatforms), the eight-step pipeline of main, file   *)
(* discovery (findJavaSourceFiles), run, remove and makeOutputDirs.        *)
(*                                                                         *)
(* A Go string is modelled as a sequence of atoms.  An atom is either one  *)
(* significant character ("/", " ", ":", ".", a letter of a file name) or  *)
(* an opaque run of characters that holds no "/" and no white space.       *)
(* String concatenation is \o, the empty string is << >>.                  *)
(***************************************************************************)
EXTENDS Naturals, Integers, Sequences, FiniteSets, TLC

VARIABLES
    argv,       \* the command line: the value given to each flag
    env,        \* the process environment: variable name -> value
    readdir,    \* SDK directories: path -> the entry names, in the order a directory read returns them
    denied,     \* paths whose open fails with a permission error
    dirs,       \* the directories that exist (absolute paths)
    files,      \* the regular files that exist (absolute paths)
    pc,         \* main's position
    args,       \* main's args struct
    t,          \* the toolchain value newToolchain returned
    child,      \* the child process cmd.Run is waiting for, or NoChild
    started,    \* the pipeline steps started, in order
    finished,   \* the pipeline steps that returned nil, in order
    exitCode,   \* Running, or the status the process ended with
    stderr,     \* what was written to the error stream, one string per write
    usage,      \* whether flag.Usage was called
    syscalls,   \* the file-system and environment calls the process made, in order
    removeErr,  \* what remove returned to main
    javaFound,  \* what the last findJavaSourceFiles call returned
    toRemove    \* the paths main hands to remove

vars == <<argv, env, readdir, denied, dirs, files, pc, args, t, child, started,
          finished, exitCode, stderr, usage, syscalls, removeErr, javaFound, toRemove>>

----------------------------------------------------------------------------
(* Bounds of the model. *)

\* the most entries a listed SDK directory holds
MaxEntries == 2

\* the most entries below the root of a walked source tree
MaxNodes == 3

\* the longest list of paths remove is given, next to the list of main
MaxPaths == 2

----------------------------------------------------------------------------
(* Strings. *)

Range(s) == {s[i] : i \in 1..Len(s)}

\* strings.Contains
Contains(s, sub) ==
    \E i \in 1..(Len(s) + 1) :
        /\ i + Len(sub) - 1 <= Len(s)
        /\ SubSeq(s, i, i + Len(sub) - 1) = sub

\* fmt.Sprintf with %v verbs only: each "%v" atom of the format is replaced by
\* the next argument, and by %!v(MISSING) when the arguments have run out
RECURSIVE Sprintf(_, _)
Sprintf(format, a) ==
    IF format = << >> THEN << >>
    ELSE IF Head(format) = "%v"
         THEN IF a = << >>
              THEN <<"%!v(MISSING)">> \o Sprintf(Tail(format), << >>)
              ELSE Head(a) \o Sprintf(Tail(format), Tail(a))
         ELSE <<Head(format)>> \o Sprintf(Tail(format), a)

\* the nil error
Nil == <<"<nil>">>

----------------------------------------------------------------------------
(* Paths. *)

\* the working directory of the process
Cwd == <<"/", "work">>

IsAbs(p) == p # << >> /\ p[1] = "/"

\* filepath.Join(wd, p) for the paths of the model, which hold no "..", no "."
\* element and no doubled or trailing separator, so that Clean changes nothing
Join(wd, p) == IF p = << >> THEN wd ELSE wd \o <<"/">> \o p

\* filepath.Abs: an absolute path is returned as it is, any other path is joined
\* to the working directory, and that fails when os.Getwd fails (wdOk = FALSE)
Abs(p, wdOk) ==
    IF IsAbs(p) THEN [path |-> p, err |-> Nil]
    ELSE IF wdOk THEN [path |-> Join(Cwd, p), err |-> Nil]
    ELSE [path |-> << >>, err |-> <<"getwd: no such file or directory">>]

\* the absolute location a path names for a system call of this process or of a child
Resolve(p) == Abs(p, TRUE).path

\* the index of the last "/" of p (0 when there is none)
LastSlash(p) ==
    LET S == {i \in 1..Len(p) : p[i] = "/"}
    IN  IF S = {} THEN 0 ELSE CHOOSE i \in S : \A j \in S : j <= i

\* filepath.Dir and filepath.Base of an absolute path below the root
Dir(p) == SubSeq(p, 1, LastSlash(p) - 1)
Base(p) == SubSeq(p, LastSlash(p) + 1, Len(p))

----------------------------------------------------------------------------
(* The file system. *)

IsDir(p) ==
    \/ p \in dirs
    \/ p \in DOMAIN readdir
    \/ /\ Dir(p) \in DOMAIN readdir
       /\ Base(p) \in Range(readdir[Dir(p)])

Exists(p) == IsDir(p) \/ p \in files

\* os.Open followed by Readdir(0), as initBuildTools and initPlatforms use them:
\* the entries in directory order, or the error of the call that failed
OpenErr(p) ==
    IF p \in denied THEN <<"open", " ">> \o p \o <<":", " ", "permission denied">>
    ELSE IF ~Exists(p) THEN <<"open", " ">> \o p \o <<":", " ", "no such file or directory">>
    ELSE Nil

ReaddirErr(p) ==
    IF p \in DOMAIN readdir THEN Nil
    ELSE <<"readdirent", " ">> \o p \o <<":", " ", "not a directory">>

Call(op, p) == [op |-> op, path |-> p]

----------------------------------------------------------------------------
(* Toolchain resolution. *)

\* the zero value of the toolchain struct
toolchain ==
    [sdk |-> << >>, buildTools |-> << >>, platform |-> << >>,
     androidLib |-> << >>, aaptBin |-> << >>, dxBin |-> << >>]

\* what a resolution function hands back: the toolchain as it has left it, its
\* error, and the system calls it made
Resolved(tc, err, calls) == [t |-> tc, err |-> err, calls |-> calls, panic |-> FALSE]

\* ff[len(ff)-1].Name(): the last entry of the listing as the directory read returned it
LastEntry(ff) == ff[Len(ff)]

initBuildTools(tc, wdOk) ==
    LET p == tc.sdk \o <<"/", "build-tools">>
        a0 == Abs(p, wdOk)
        ff == readdir[p]
        bt == Abs(p \o <<"/">> \o LastEntry(ff), wdOk)
        t1 == [tc EXCEPT !.buildTools = bt.path]
        pa == t1.buildTools \o <<"/", "aapt">>
        aapt == Abs(pa, wdOk)
        t2 == [t1 EXCEPT !.aaptBin = aapt.path]
        pd == t2.buildTools \o <<"/", "dx">>
        dx == Abs(pd, wdOk)
        t3 == [t2 EXCEPT !.dxBin = dx.path]
        opened == <<Call("open", p)>>
        listed == opened \o <<Call("readdir", p)>>
    IN  IF a0.err # Nil
        THEN Resolved(tc, Sprintf(<<"no build-tools directory found under '", "%v",
                                    "' due to error: ", "%v">>, <<p, a0.err>>), << >>)
        ELSE IF OpenErr(p) # Nil
        THEN Resolved(tc, Sprintf(<<"could not find build-tools found under '", "%v",
                                    "' due to error: ", "%v">>, <<p, OpenErr(p)>>), opened)
        ELSE IF ReaddirErr(p) # Nil
        THEN Resolved(tc, Sprintf(<<"could not read build-tools dir under '", "%v",
                                    "' due to error: ", "%v">>, <<p, ReaddirErr(p)>>), listed)
        ELSE IF Len(ff) < 1
        THEN Resolved(tc, Sprintf(<<"no build tools found under '", "%v", "'">>,
                                  <<<<ToString(Len(ff))>>>>), listed)
        ELSE IF bt.err # Nil
        THEN Resolved(t1, Sprintf(<<"received error when selecting most modern build-tools version: '",
                                    "%v", "'">>, <<bt.err>>), listed)
        ELSE IF aapt.err # Nil
        THEN Resolved(t2, Sprintf(<<"could not find aapt binary at path '", "%v",
                                    "' due to error: '", "%v", "'">>, <<pa, aapt.err>>), listed)
        ELSE IF dx.err # Nil
        THEN Resolved(t3, Sprintf(<<"could not find dx binary at path '", "%v",
                                    "' due to error: '", "%v", "'">>, <<pd, dx.err>>), listed)
        ELSE Resolved(t3, Nil, listed)

initPlatforms(tc, wdOk) ==
    LET p == tc.sdk \o <<"/", "platforms">>
        a0 == Abs(p, wdOk)
        ff == readdir[p]
        pl == Abs(p \o <<"/">> \o LastEntry(ff), wdOk)
        t1 == [tc EXCEPT !.platform = pl.path]
        pj == t1.platform \o <<"/", "android.jar">>
        jar == Abs(pj, wdOk)
        t2 == [t1 EXCEPT !.androidLib = jar.path]
        opened == <<Call("open", p)>>
        listed == opened \o <<Call("readdir", p)>>
    IN  IF a0.err # Nil
        THEN Resolved(tc, Sprintf(<<"no valid platform found under '", "%v",
                                    "' due to error: ", "%v">>, <<p, a0.err>>), << >>)
        ELSE IF OpenErr(p) # Nil
        THEN Resolved(tc, Sprintf(<<"could not find platforms under '", "%v",
                                    "' due to error: ", "%v">>, <<p, OpenErr(p)>>), opened)
        ELSE IF ReaddirErr(p) # Nil
        THEN Resolved(tc, Sprintf(<<"could not find platforms under '", "%v",
                                    "' due to error: ", "%v">>, <<p, ReaddirErr(p)>>), listed)
        ELSE IF Len(ff) < 1
        \* d.Name() is the name the directory was opened with
        THEN Resolved(tc, Sprintf(<<"no contents found in platform dir found under '", "%v", "'">>,
                                  <<p>>), listed)
        ELSE IF pl.err # Nil
        THEN Resolved(t1, Sprintf(<<"received error when selecting most modern platform: '",
                                    "%v", "'">>, <<pl.err>>), listed)
        ELSE IF jar.err # Nil
        THEN Resolved(t2, Sprintf(<<"could not find android.jar library at path '", "%v",
                                    "' due to error: '", "%v", "'">>, <<pj, jar.err>>), listed)
        ELSE Resolved(t2, Nil, listed)

\* the sdkmanager hint newToolchain appends to an error of either listing
Hint(SDKPath) ==
    <<"\nAre all the build-tools and platforms required to build an android app installed via sdkmanager?\n\nTo list installed and installable versions, try:\n$ ">>
    \o SDKPath \o <<"/", "tools", "/", "bin", "/", "sdkmanager --list\n\nTo install build-tools and platforms, try:\n$ ">>
    \o SDKPath \o <<"/", "tools", "/", "bin", "/", "sdkmanager --install 'build-tools;28.0.3' 'platforms;android-28'\n">>

newToolchain(SDKPath, wdOk) ==
    LET a0 == Abs(SDKPath, wdOk)
        t0 == [toolchain EXCEPT !.sdk = a0.path]
        tools == Abs(t0.sdk \o <<"/", "tools">>, wdOk)
        b == initBuildTools(t0, wdOk)
        pf == initPlatforms(b.t, wdOk)
    IN  IF a0.err # Nil
        THEN Resolved(t0, Sprintf(<<"no valid directory has been found as $ANDROID_HOME due to error: ",
                                    "%v">>, <<a0.err>>), << >>)
        ELSE IF tools.err # Nil
        THEN Resolved(t0, Sprintf(<<"%v", "\nvisit developer.android.com to install command-line-only dev tools">>,
                         <<Sprintf(<<"%v", "\nthis may mean the Android SDK has not been installed">>,
                            <<Sprintf(<<"could not find tools directory due to error: ", "%v">>,
                                      <<tools.err>>)>>)>>), << >>)
        ELSE IF b.err # Nil
        THEN Resolved(b.t, Sprintf(<<"%v", "\n", "%v">>, <<b.err, Hint(SDKPath)>>), b.calls)
        ELSE IF pf.err # Nil
        THEN Resolved(pf.t, Sprintf(<<"%v", "\n", "%v">>, <<pf.err, Hint(SDKPath)>>),
                      b.calls \o pf.calls)
        ELSE Resolved(pf.t, Nil, b.calls \o pf.calls)

(* newToolchain as the earlier build program of the repository has it: one      *)
(* function, a listing is refused when it holds more than one entry, and the    *)
(* last entry is indexed without a test for an empty listing, which panics.     *)
Panicked(tc, calls) ==
    [t |-> tc, err |-> <<"panic: runtime error: index out of range [-1]">>,
     calls |-> calls, panic |-> TRUE]

newToolchainLegacy(SDKPath, wdOk) ==
    LET a0 == Abs(SDKPath, wdOk)
        t0 == [toolchain EXCEPT !.sdk = a0.path]
        p == t0.sdk \o <<"/", "build-tools">>
        a1 == Abs(p, wdOk)
        ff == readdir[p]
        bt == Abs(p \o <<"/">> \o LastEntry(ff), wdOk)
        t1 == [t0 EXCEPT !.buildTools = bt.path]
        q == t1.sdk \o <<"/", "platforms">>
        a2 == Abs(q, wdOk)
        gg == readdir[q]
        pl == Abs(q \o <<"/">> \o LastEntry(gg), wdOk)
        t2 == [t1 EXCEPT !.platform = pl.path]
        jar == Abs(t2.platform \o <<"/", "android.jar">>, wdOk)
        t3 == [t2 EXCEPT !.androidLib = jar.path]
        aapt == Abs(t3.buildTools \o <<"/", "aapt">>, wdOk)
        t4 == [t3 EXCEPT !.aaptBin = aapt.path]
        dx == Abs(t4.buildTools \o <<"/", "dx">>, wdOk)
        t5 == [t4 EXCEPT !.dxBin = dx.path]
        c1 == <<Call("open", p)>>
        c2 == c1 \o <<Call("readdir", p)>>
        c3 == c2 \o <<Call("open", q)>>
        c4 == c3 \o <<Call("readdir", q)>>
    IN  IF a0.err # Nil
        THEN Resolved(t0, Sprintf(<<"No valid directory has been found as $ANDROID_HOME due to error: ",
                                    "%v">>, <<a0.err>>), << >>)
        ELSE IF a1.err # Nil
        THEN Resolved(t0, Sprintf(<<"No build-tools directory found under '", "%v",
                                    "' due to error: ", "%v">>, <<p, a1.err>>), << >>)
        ELSE IF OpenErr(p) # Nil
        THEN Resolved(t0, Sprintf(<<"Could not find build-tools found under '", "%v",
                                    "' due to error: ", "%v">>, <<p, OpenErr(p)>>), c1)
        ELSE IF ReaddirErr(p) # Nil
        THEN Resolved(t0, Sprintf(<<"Could not find platforms under '", "%v",
                                    "' due to error: ", "%v">>, <<p, ReaddirErr(p)>>), c2)
        ELSE IF Len(ff) > 1
        THEN Resolved(t0, Sprintf(<<"No platforms found under '", "%v", "'">>, <<p>>), c2)
        ELSE IF Len(ff) = 0
        THEN Panicked(t0, c2)
        ELSE IF bt.err # Nil
        THEN Resolved(t1, Sprintf(<<"Received error when selecting most modern build-tools version: '",
                                    "%v", "'">>, <<bt.err>>), c2)
        ELSE IF a2.err # Nil
        THEN Resolved(t1, Sprintf(<<"No valid platform found under '", "%v",
                                    "' due to error: ", "%v">>, <<q, a2.err>>), c2)
        ELSE IF OpenErr(q) # Nil
        THEN Resolved(t1, Sprintf(<<"Could not find platforms under '", "%v",
                                    "' due to error: ", "%v">>, <<q, OpenErr(q)>>), c3)
        ELSE IF ReaddirErr(q) # Nil
        THEN Resolved(t1, Sprintf(<<"Could not find platforms under '", "%v",
                                    "' due to error: ", "%v">>, <<q, ReaddirErr(q)>>), c4)
        ELSE IF Len(gg) > 1
        THEN Resolved(t1, Sprintf(<<"No platforms found under '", "%v", "'">>, <<q>>), c4)
        ELSE IF Len(gg) = 0
        THEN Panicked(t1, c4)
        ELSE IF pl.err # Nil
        THEN Resolved(t2, Sprintf(<<"Received error when selecting most modern platform: '",
                                    "%v", "'">>, <<pl.err>>), c4)
        ELSE IF jar.err # Nil
        THEN Resolved(t3, Sprintf(<<"Could not find android.jar library at path '", "%v",
                                    "' due to error: '", "%v", "'">>, <<jar.err>>), c4)
        ELSE IF aapt.err # Nil
        THEN Resolved(t4, Sprintf(<<"Could not find aapt binary at path '", "%v",
                                    "' due to error: '", "%v", "'">>, <<aapt.err>>), c4)
        ELSE IF dx.err # Nil
        THEN Resolved(t5, Sprintf(<<"Could not find dx binary at path '", "%v",
                                    "' due to error: '", "%v", "'">>, <<dx.err>>), c4)
        ELSE Resolved(t5, Nil, c4)

----------------------------------------------------------------------------
(* File discovery. *)

\* the search of `.*.java$`, whose dot before java stands for any character
javaFilenameUnescapedDot(name) ==
    \E k \in 1..Len(name) :
        /\ k + 4 = Len(name)
        /\ name[k] # "\n"
        /\ SubSeq(name, k + 1, k + 4) = <<"j", "a", "v", "a">>

\* javaFilename.MatchString: the unanchored search of `.*\.java$`.  The match
\* starts at s, `.*` takes s..k-1 (no line break), `\.java` takes k..k+4, and `$`
\* holds at the end of the text only.
javaFilename(name) ==
    \E k \in 1..Len(name) :
        /\ k + 4 = Len(name)
        /\ SubSeq(name, k, k + 4) = <<".", "j", "a", "v", "a">>
        /\ \E s \in 1..k : \A i \in s..(k - 1) : name[i] # "\n"

\* the error of a system call on a path access to which is refused or that is not there
StatErr(op, p) ==
    IF Resolve(p) \in denied THEN <<op, " ">> \o p \o <<":", " ", "permission denied">>
    ELSE IF ~Exists(Resolve(p)) THEN <<op, " ">> \o p \o <<":", " ", "no such file or directory">>
    ELSE Nil

\* the position of a name in an ordering of names (0 when it is not in it)
Rank(ord, name) ==
    IF \E i \in 1..Len(ord) : ord[i] = name
    THEN CHOOSE i \in 1..Len(ord) : ord[i] = name
    ELSE 0

\* readDirNames: the names of the entries of a directory, in the order ord
RECURSIVE SortNames(_, _)
SortNames(S, ord) ==
    IF S = {} THEN << >>
    ELSE LET n == CHOOSE x \in S : \A y \in S : Rank(ord, x) <= Rank(ord, y)
         IN  <<n>> \o SortNames(S \ {n}, ord)

readDirNames(path, ord) ==
    SortNames({Base(q) : q \in {x \in dirs \cup files : Dir(x) = Resolve(path)}}, ord)

\* filepath.Walk with the callback of findJavaSourceFiles: the paths appended and
\* the error the walk ended with.  The callback returns its error argument when it
\* is not nil, passes over a directory, and appends the path of any other entry
\* whose name matches javaFilename.
RECURSIVE walk(_, _), walkNames(_, _, _)
walk(path, ord) ==
    IF ~IsDir(Resolve(path))
    THEN [paths |-> IF javaFilename(Base(path)) THEN <<path>> ELSE << >>, err |-> Nil]
    ELSE walkNames(path, readDirNames(path, ord), ord)

walkNames(path, names, ord) ==
    IF names = << >> THEN [paths |-> << >>, err |-> Nil]
    ELSE LET filename == Join(path, Head(names))
             first == IF StatErr("lstat", filename) # Nil
                      THEN [paths |-> << >>, err |-> StatErr("lstat", filename)]
                      ELSE walk(filename, ord)
             rest == walkNames(path, Tail(names), ord)
         IN  IF first.err # Nil THEN first
             ELSE [paths |-> first.paths \o rest.paths, err |-> rest.err]

findJavaSourceFiles(rootDir, ord) ==
    LET w == IF StatErr("lstat", rootDir) # Nil
             THEN [paths |-> << >>, err |-> StatErr("lstat", rootDir)]
             ELSE walk(rootDir, ord)
    IN  [paths |-> w.paths,
         err |-> IF w.err # Nil
                 THEN Sprintf(<<"received error when finding Java source files under '", "%v",
                                "' : ", "%v", "\n">>, <<rootDir, w.err>>)
                 ELSE Nil]

----------------------------------------------------------------------------
(* Running a command. *)

IsSpace(c) == c \in {" ", "\t", "\n"}

RECURSIVE DropSpaces(_)
DropSpaces(s) ==
    IF s # << >> /\ IsSpace(Head(s)) THEN DropSpaces(Tail(s)) ELSE s

\* spaces.ReplaceAllString(command, " "): every run of white space becomes one " "
RECURSIVE ReplaceSpaces(_)
ReplaceSpaces(s) ==
    IF s = << >> THEN << >>
    ELSE IF IsSpace(Head(s)) THEN <<" ">> \o ReplaceSpaces(DropSpaces(Tail(s)))
    ELSE <<Head(s)>> \o ReplaceSpaces(Tail(s))

\* strings.Split(s, " "): the strings between the separators, empty ones included
RECURSIVE Split(_)
Split(s) ==
    LET S == {i \in 1..Len(s) : s[i] = " "}
        i == CHOOSE x \in S : \A y \in S : x <= y
    IN  IF S = {} THEN <<s>>
        ELSE <<SubSeq(s, 1, i - 1)>> \o Split(SubSeq(s, i + 1, Len(s)))

\* strings.Join(elems, " ")
RECURSIVE JoinSpace(_)
JoinSpace(elems) ==
    IF elems = << >> THEN << >>
    ELSE IF Len(elems) = 1 THEN elems[1]
    ELSE elems[1] \o <<" ">> \o JoinSpace(Tail(elems))

\* the program and the arguments run hands to exec.Command
CommandLine(command) ==
    LET s == Split(ReplaceSpaces(command))
    IN  [name |-> s[1], args |-> Tail(s)]

\* cmd.Run failing to start the program: a name with a separator must be a file
\* that is there; any other name is looked up in $PATH, which finds it or not
LaunchErr(name, inPath) ==
    IF \E i \in 1..Len(name) : name[i] = "/"
    THEN IF Resolve(name) \in files THEN Nil
         ELSE <<"fork/exec", " ">> \o name \o <<":", " ", "no such file or directory">>
    ELSE IF inPath /\ name # << >> THEN Nil
    ELSE <<"exec: ">> \o name \o <<": executable file not found in $PATH">>

\* the error run returns
RunErr(command, err) ==
    Sprintf(<<"error when running command ", "%v", " : ", "%v", "\n">>, <<command, err>>)

NoChild == [step |-> 0, command |-> << >>, name |-> << >>, args |-> << >>]

\* the argument that follows the option opt
ArgAfter(a, opt) == a[1 + CHOOSE i \in 1..Len(a) : a[i] = <<opt>>]

----------------------------------------------------------------------------
(* The names main gives to its artifacts, and the commands of its steps. *)

outputDirForGeneratedSourceFiles == <<"generated_java_sources">>
outputDirForBytecode == <<"java_virtual_machine_bytecode">>
outputDexFilepath == <<"classes", ".", "dex">>
filepathOfAPK == <<"app", ".", "apk">>
filepathOfUnalignedAPK == <<"app", ".", "apk", ".", "unaligned">>

tmpDirs == <<outputDirForGeneratedSourceFiles, outputDirForBytecode>>

Getenv(name) == IF name \in DOMAIN env THEN env[name] ELSE << >>

generateJavaFileForAndroidResources(tc, J, M, S) ==
    Sprintf(<<"%v", " ", "package", " ", "-f", " ", "-m", " ", "-J", " ", "%v", " ", "-M", " ",
              "%v", " ", "-S", " ", "%v", " ", "-I", " ", "%v">>,
            <<tc.aaptBin, J, M, S, tc.androidLib>>)

compileJavaSourceFilesToJavaVirtualMachineBytecode(tc, javaSources, generated, bytecode, javaFiles) ==
    Sprintf(<<"javac", " ", "-classpath", " ", "%v", " ", "-sourcepath", " ", "%v", " ", "-d", " ",
              "%v", " ", "-target", " ", "1.8", " ", "-source", " ", "1.8", " ", "%v">>,
            <<tc.androidLib, javaSources \o <<":">> \o generated, bytecode, javaFiles>>)

translateJavaVirtualMachineMBytecodeToAndroidRuntimeBytecode(tc, dex, bytecode) ==
    Sprintf(<<"%v", " ", "--dex", " ", "--min-sdk-version=26", " ", "--output", " ", "%v", " ", "%v">>,
            <<tc.dxBin, dex, bytecode>>)

createUnalignedAndroidApplicationPackage(tc, M, S, unaligned) ==
    Sprintf(<<"%v", " ", "package", " ", "-f", " ", "-M", " ", "%v", " ", "-S", " ", "%v", " ",
              "-I", " ", "%v", " ", "-F", " ", "%v">>,
            <<tc.aaptBin, M, S, tc.androidLib, unaligned>>)

addAndroidRuntimeBytecodeToAndroidApplicationPackage(tc, unaligned, dex) ==
    Sprintf(<<"%v", " ", "add", " ", "%v", " ", "%v">>, <<tc.aaptBin, unaligned, dex>>)

signAndroidApplicationPackageWithDebugKey(tc, unaligned) ==
    Sprintf(<<"jarsigner", " ", "-keystore", " ", "%v", "/", ".android", "/", "debug.keystore", " ",
              "-storepass", " ", "android", " ", "%v", " ", "androiddebugkey">>,
            <<Getenv("HOME"), unaligned>>)

alignUncompressedDataInZipFileToFourByteBoundariesForFasterMemoryMappingAtRuntime(tc, unaligned, apk) ==
    Sprintf(<<"%v", " ", "-f", " ", "4", " ", "%v", " ", "%v">>,
            <<tc.buildTools \o <<"/", "zipalign">>, unaligned, apk>>)

\* what main writes to the error stream when step k returns an error
StepMessage(k) ==
    CASE k = 1 -> "could not create Java file from Android XML resources files due to error: "
      [] k = 2 -> "could not compile java source files to bytecode due to error: "
      [] k = 3 -> "could not translate bytecode with dexer due to error: "
      [] k = 4 -> "could not create unaligned APK file due to error: "
      [] k = 5 -> "could not add android runtime bytecode to APK due to error: "
      [] k = 6 -> "could not sign APK due to error: "
      [] k = 7 -> "Could align bytes of APK file due to error: "

\* main's position before step k
StepPc(k) ==
    CASE k = 1 -> "generate" [] k = 2 -> "compile" [] k = 3 -> "translate" [] k = 4 -> "package"
      [] k = 5 -> "add" [] k = 6 -> "sign" [] k = 7 -> "align" [] k = 8 -> "remove"

----------------------------------------------------------------------------
(* The external tools, by the contract the pipeline relies on: the files a    *)
(* tool that exits with status 0 has written, read from the arguments it was  *)
(* started with, and what has to be there for it to exit with status 0.       *)

ToolCanSucceed(c) ==
    CASE c.step = 1 -> IsDir(Resolve(ArgAfter(c.args, "-J")))
      [] c.step = 2 -> /\ IsDir(Resolve(ArgAfter(c.args, "-d")))
                       /\ Len(c.args) >= 11
                       /\ \A i \in 11..Len(c.args) : Resolve(c.args[i]) \in files
      [] c.step = 3 -> IsDir(Resolve(c.args[5]))
      [] c.step = 4 -> TRUE
      [] c.step = 5 -> Resolve(c.args[2]) \in files /\ Resolve(c.args[3]) \in files
      [] c.step = 6 -> Resolve(c.args[5]) \in files
      [] c.step = 7 -> Resolve(c.args[3]) \in files

ToolOutput(c) ==
    CASE c.step = 1 -> {Resolve(ArgAfter(c.args, "-J")) \o <<"/", "R", ".", "j", "a", "v", "a">>}
      [] c.step = 2 -> {Resolve(ArgAfter(c.args, "-d")) \o <<"/", "Main.class">>}
      [] c.step = 3 -> {Resolve(ArgAfter(c.args, "--output"))}
      [] c.step = 4 -> {Resolve(ArgAfter(c.args, "-F"))}
      [] c.step = 5 -> {}
      [] c.step = 6 -> {}
      [] c.step = 7 -> {Resolve(c.args[4])}

----------------------------------------------------------------------------
(* Directory creation and removal. *)

\* x is r or lies below r
Under(x, r) ==
    \/ x = r
    \/ Len(x) > Len(r) /\ SubSeq(x, 1, Len(r) + 1) = r \o <<"/">>

\* makeOutputDirs from the i-th path on, D being the directories there are.
\* os.Mkdir of the path at position fault fails for a reason other than the path
\* being there already (fault = 0: no such failure).
RECURSIVE makeOutputDirsFrom(_, _, _, _)
makeOutputDirsFrom(paths, i, D, fault) ==
    IF i > Len(paths) THEN [err |-> Nil, dirs |-> D, calls |-> << >>]
    ELSE LET s == paths[i]
             err == IF fault = i THEN <<"mkdir", " ">> \o s \o <<":", " ", "permission denied">>
                    ELSE IF Resolve(s) \in D \cup files
                    THEN <<"mkdir", " ">> \o s \o <<":", " ", "file exists">>
                    ELSE Nil
             rest == makeOutputDirsFrom(paths, i + 1,
                                        IF err = Nil THEN D \cup {Resolve(s)} ELSE D, fault)
         IN  IF err # Nil /\ ~Contains(err, <<"file exists">>)
             THEN [err |-> err, dirs |-> D, calls |-> <<Call("mkdir", s)>>]
             ELSE [rest EXCEPT !.calls = <<Call("mkdir", s)>> \o rest.calls]

\* a makeOutputDirs that returns every error of os.Mkdir, that of a path which is
\* there already included
makeOutputDirsAnyErrorFatal(paths, fault) ==
    LET E == {i \in 1..Len(paths) : Resolve(paths[i]) \in dirs \cup files}
        i == CHOOSE x \in E : \A y \in E : x <= y
        before == makeOutputDirsFrom(SubSeq(paths, 1, i - 1), 1, dirs, fault)
    IN  IF E = {} THEN makeOutputDirsFrom(paths, 1, dirs, fault)
        ELSE IF before.err # Nil THEN before
        ELSE [err |-> <<"mkdir", " ">> \o paths[i] \o <<":", " ", "file exists">>,
              dirs |-> before.dirs,
              calls |-> before.calls \o <<Call("mkdir", paths[i])>>]

makeOutputDirs(paths, fault) == makeOutputDirsFrom(paths, 1, dirs, fault)

\* remove from the i-th path on, fs being what is there.  The removal of the path
\* at position fault fails (fault = 0: no removal fails).
RECURSIVE removeFrom(_, _, _, _)
removeFrom(paths, i, fs, fault) ==
    IF i > Len(paths) THEN [err |-> Nil, dirs |-> fs.dirs, files |-> fs.files, calls |-> << >>]
    ELSE LET s == paths[i]
             r == Resolve(s)
             isDir == r \in fs.dirs
             statErr == IF r \in denied
                        THEN <<"stat", " ">> \o s \o <<":", " ", "permission denied">>
                        ELSE IF r \notin fs.dirs \cup fs.files
                        THEN <<"stat", " ">> \o s \o <<":", " ", "no such file or directory">>
                        ELSE Nil
             rmErr == IF isDir
                      THEN <<"unlinkat", " ">> \o s \o <<":", " ", "permission denied">>
                      ELSE <<"remove", " ">> \o s \o <<":", " ", "permission denied">>
             calls == <<Call("stat", s), Call(IF isDir THEN "removeall" ELSE "remove", s)>>
             after == IF isDir
                      THEN [dirs |-> {d \in fs.dirs : ~Under(d, r)},
                            files |-> {f \in fs.files : ~Under(f, r)}]
                      ELSE [dirs |-> fs.dirs, files |-> fs.files \ {r}]
             rest == removeFrom(paths, i + 1, after, fault)
         IN  IF statErr # Nil
             THEN [err |-> Sprintf(<<"could not stat file at '", "%v", "' due to error: ", "%v", "\n">>,
                                   <<s, statErr>>),
                   dirs |-> fs.dirs, files |-> fs.files, calls |-> <<Call("stat", s)>>]
             ELSE IF fault = i
             THEN [err |-> IF isDir
                           THEN Sprintf(<<"could not remove directory at '", "%v",
                                          "' due to error: ", "%v", "\n">>, <<s, rmErr>>)
                           ELSE rmErr,
                   dirs |-> fs.dirs, files |-> fs.files, calls |-> calls]
             ELSE [rest EXCEPT !.calls = calls \o rest.calls]

\* a remove that goes on to the next path after a failure and returns the last error
RECURSIVE removeFromKeepingOn(_, _, _, _)
removeFromKeepingOn(paths, i, fs, fault) ==
    IF i > Len(paths) THEN [err |-> Nil, dirs |-> fs.dirs, files |-> fs.files, calls |-> << >>]
    ELSE LET one == removeFrom(<<paths[i]>>, 1, fs, IF fault = i THEN 1 ELSE 0)
             rest == removeFromKeepingOn(paths, i + 1, [dirs |-> one.dirs, files |-> one.files], fault)
         IN  [err |-> IF rest.err # Nil THEN rest.err ELSE one.err,
              dirs |-> rest.dirs, files |-> rest.files, calls |-> one.calls \o rest.calls]

removeKeepingOn(paths, fault) ==
    removeFromKeepingOn(paths, 1, [dirs |-> dirs, files |-> files], fault)

remove(paths, fault) == removeFrom(paths, 1, [dirs |-> dirs, files |-> files], fault)

----------------------------------------------------------------------------
(* The inputs of a run: the command line, the environment and the file system. *)

Running == -1

SdkRoot == <<"/", "sdk">>
BuildToolsPath == SdkRoot \o <<"/", "build-tools">>
PlatformsPath == SdkRoot \o <<"/", "platforms">>

\* the installed versions an SDK directory may hold
BuildToolsNames ==
    {<<"2", "8", ".", "0", ".", "3">>, <<"3", "0", ".", "0", ".", "1">>, <<"9", ".", "0", ".", "0">>}
PlatformNames == {<<"android-", "2", "8">>, <<"android-", "9">>}

Injective(f) == \A i, j \in DOMAIN f : f[i] = f[j] => i = j

\* the listings a directory read may return of at most MaxEntries entries named
\* in S: every choice of the entries, in every order
Listings(S) ==
    UNION {{f \in [1..n -> S] : Injective(f)} : n \in 0..MaxEntries}

\* every order of the names of S
Orders(S) == {f \in [1..Cardinality(S) -> S] : Injective(f)}

\* an SDK on disk: whether its root is there, what build-tools and platforms are
\* ("missing", "denied", a "file", or a "dir" with a listing), and the one tool
\* file that is not installed ("none": all are)
SdkLayouts(Kinds, BtLists, PlLists, Missing) ==
    {L \in [root : BOOLEAN, btKind : Kinds, btList : BtLists, plKind : Kinds,
            plList : PlLists, missing : Missing] :
        /\ L.btKind # "dir" => L.btList = << >>
        /\ L.plKind # "dir" => L.plList = << >>
        /\ ~L.root => L.btKind = "missing" /\ L.plKind = "missing"
        /\ L.btList = << >> => L.missing \notin {"aapt", "dx", "zipalign"}
        /\ L.plList = << >> => L.missing # "android.jar"}

SdkReaddir(L) ==
    [d \in (IF L.btKind = "dir" THEN {BuildToolsPath} ELSE {})
           \cup (IF L.plKind = "dir" THEN {PlatformsPath} ELSE {})
     |-> IF d = BuildToolsPath THEN L.btList ELSE L.plList]

SdkDenied(L) ==
    {d \in {BuildToolsPath, PlatformsPath} :
        (d = BuildToolsPath /\ L.btKind = "denied") \/ (d = PlatformsPath /\ L.plKind = "denied")}

SdkDirs(L) == IF L.root THEN {SdkRoot} ELSE {}

SdkFiles(L) ==
    {d \in {BuildToolsPath, PlatformsPath} :
        (d = BuildToolsPath /\ L.btKind = "file") \/ (d = PlatformsPath /\ L.plKind = "file")}
    \cup {BuildToolsPath \o <<"/">> \o L.btList[i] \o <<"/", tool>> :
            i \in 1..Len(L.btList), tool \in {"aapt", "dx", "zipalign"} \ {L.missing}}
    \cup {PlatformsPath \o <<"/">> \o L.plList[i] \o <<"/", tool>> :
            i \in 1..Len(L.plList), tool \in {"android.jar"} \ {L.missing}}

MainJava == <<"M", "a", "i", "n", ".", "j", "a", "v", "a">>
RJava == <<"R", ".", "j", "a", "v", "a">>

\* the working directory on disk: the -out flag and whether the directory it
\* names is there with a generated-source directory in it, whether an earlier run
\* has left its temporary directories behind, and the Java source directory
\* ("missing", "empty", or with "one" source file)
WorkLayouts(Outs, Leftovers, Javas) ==
    {W \in [out : Outs, outPrepared : BOOLEAN, leftover : Leftovers, java : Javas] :
        W.out = << >> => ~W.outPrepared}

WorkDirs(W) ==
    {Cwd}
    \cup (IF W.leftover THEN {Join(Cwd, outputDirForGeneratedSourceFiles),
                               Join(Cwd, outputDirForBytecode)} ELSE {})
    \cup (IF W.outPrepared
          THEN {Join(Cwd, W.out), Join(Join(Cwd, W.out), outputDirForGeneratedSourceFiles)}
          ELSE {})
    \cup (IF W.java # "missing" THEN {Join(Cwd, <<"java">>)} ELSE {})

WorkFiles(W) ==
    (IF W.leftover THEN {Join(Join(Cwd, outputDirForGeneratedSourceFiles), RJava)} ELSE {})
    \cup (IF W.java = "one" THEN {Join(Join(Cwd, <<"java">>), MainJava)} ELSE {})

\* the environments: HOME set, and ANDROID_HOME unset, empty or naming the SDK
Environments ==
    LET base == [n \in {"HOME"} |-> <<"/", "home">>]
    IN  {base,
         [n \in {"HOME", "ANDROID_HOME"} |-> IF n = "HOME" THEN base["HOME"] ELSE << >>],
         [n \in {"HOME", "ANDROID_HOME"} |-> IF n = "HOME" THEN base["HOME"] ELSE SdkRoot]}

\* the state of the process before main has run a statement, on the given inputs
InitWith(SdkFlags, Envs, Sdks, Works) ==
    /\ \E f \in SdkFlags, W \in Works :
         argv = [sdk |-> f, manifest |-> <<"AndroidManifest.xml">>, xml |-> <<"xml">>,
                 java |-> <<"java">>, out |-> W.out]
         /\ \E L \in Sdks :
              /\ readdir = SdkReaddir(L)
              /\ denied = SdkDenied(L)
              /\ dirs = SdkDirs(L) \cup WorkDirs(W)
              /\ files = SdkFiles(L) \cup WorkFiles(W)
    /\ env \in Envs
    /\ pc = "start"
    /\ args = [androidHome |-> << >>, androidManifestFilepath |-> << >>,
               xmlResourcesFilepath |-> << >>, javaSourcesFilepath |-> << >>,
               outputDir |-> << >>]
    /\ t = toolchain
    /\ child = NoChild
    /\ started = << >>
    /\ finished = << >>
    /\ exitCode = Running
    /\ stderr = << >>
    /\ usage = FALSE
    /\ syscalls = << >>
    /\ removeErr = Nil
    /\ javaFound = [paths |-> << >>, err |-> Nil]
    /\ toRemove = <<outputDexFilepath, filepathOfUnalignedAPK>> \o tmpDirs

SdkKinds == {"missing", "denied", "file", "dir"}

\* the runs of the pipeline: one installed version of each kind or no build-tools
\* directory, any tool file missing, and every layout of the working directory
Init ==
    InitWith({<< >>, SdkRoot}, Environments,
             SdkLayouts({"missing", "dir"}, {<< >>, <<<<"2", "8", ".", "0", ".", "3">>>>},
                        {<<<<"android-", "2", "8">>>>},
                        {"none", "aapt", "dx", "zipalign", "android.jar"}),
             WorkLayouts({<< >>, <<"out">>}, BOOLEAN, {"missing", "empty", "one"}))

\* the runs of toolchain resolution: every SDK layout, one working directory
InitResolve ==
    InitWith({<< >>, SdkRoot}, {e \in Environments : "ANDROID_HOME" \in DOMAIN e /\ e["ANDROID_HOME"] # << >>},
             SdkLayouts(SdkKinds, Listings(BuildToolsNames), Listings(PlatformNames),
                        {"none", "aapt", "dx", "android.jar"}),
             WorkLayouts({<< >>}, {FALSE}, {"one"}))

----------------------------------------------------------------------------
(* main. *)

\* fmt.Fprintf(os.Stderr, ...) followed by os.Exit(1)
Fatal(message) ==
    /\ stderr' = Append(stderr, message)
    /\ exitCode' = 1
    /\ pc' = "exited"

\* a main that takes the SDK location from ANDROID_HOME as it finds it
ParseFlagsUncheckedEnvironment ==
    /\ pc = "start"
    /\ args' = [androidHome |-> IF argv.sdk = << >> THEN Getenv("ANDROID_HOME") ELSE argv.sdk,
                androidManifestFilepath |-> argv.manifest,
                xmlResourcesFilepath |-> argv.xml, javaSourcesFilepath |-> argv.java,
                outputDir |-> argv.out]
    /\ syscalls' = IF argv.sdk = << >>
                   THEN Append(syscalls, Call("getenv", <<"ANDROID_HOME">>))
                   ELSE syscalls
    /\ pc' = "abs"
    /\ UNCHANGED <<argv, env, toRemove, readdir, denied, dirs, files, t, child, started, finished,
                   removeErr, javaFound, stderr, exitCode, usage>>

\* flag.Parse, and the SDK location taken from ANDROID_HOME when -sdk is not given
ParseFlags ==
    /\ pc = "start"
    /\ LET parsed == [androidHome |-> argv.sdk, androidManifestFilepath |-> argv.manifest,
                      xmlResourcesFilepath |-> argv.xml, javaSourcesFilepath |-> argv.java,
                      outputDir |-> argv.out]
           envExists == "ANDROID_HOME" \in DOMAIN env
           value == Getenv("ANDROID_HOME")
       IN  IF parsed.androidHome = << >>
           THEN /\ args' = [parsed EXCEPT !.androidHome = value]
                /\ syscalls' = Append(syscalls, Call("getenv", <<"ANDROID_HOME">>))
                /\ IF ~envExists
                   THEN /\ Fatal(<<"ANDROID_HOME must be set as an environment variable or the SDK location must be provided manually as a flag\n">>)
                        /\ usage' = TRUE
                   ELSE IF value = << >>
                   THEN /\ Fatal(<<"ANDROID_HOME is set as an empty enviroment variable and must be non-empty, or the SDK location must be provided manually as a flag\n">>)
                        /\ usage' = TRUE
                   ELSE /\ pc' = "abs"
                        /\ UNCHANGED <<stderr, exitCode, usage>>
           ELSE /\ args' = parsed
                /\ pc' = "abs"
                /\ UNCHANGED <<stderr, exitCode, usage, syscalls>>
    /\ UNCHANGED <<argv, env, toRemove, readdir, denied, dirs, files, t, child, started, finished,
                   removeErr, javaFound>>

\* the system calls of filepath.Abs(p): os.Getwd for a path that is not absolute
AbsCalls(p) == IF IsAbs(p) THEN << >> ELSE <<Call("getwd", << >>)>>

\* the manifest and the output directory made absolute
AbsolutizePaths ==
    /\ pc = "abs"
    /\ \E wd1, wd2 \in BOOLEAN :
         LET m == Abs(args.androidManifestFilepath, wd1)
             o == Abs(args.outputDir, wd2)
         IN  IF m.err # Nil
             THEN /\ Fatal(Sprintf(<<"could not find AndroidManifest.xml at filepath '", "%v",
                                     "' due to error: '", "%v", "'\n">>,
                                   <<args.androidManifestFilepath, m.err>>))
                  /\ syscalls' = syscalls \o AbsCalls(args.androidManifestFilepath)
                  /\ UNCHANGED args
             ELSE IF o.err # Nil
             THEN /\ Fatal(Sprintf(<<"could not locate output directory at filepath '", "%v",
                                     "' due to error: ", "%v", "\n">>, <<args.outputDir, o.err>>))
                  /\ syscalls' = syscalls \o AbsCalls(args.androidManifestFilepath)
                                          \o AbsCalls(args.outputDir)
                  /\ args' = [args EXCEPT !.androidManifestFilepath = m.path]
             ELSE /\ args' = [args EXCEPT !.androidManifestFilepath = m.path,
                                          !.outputDir = o.path]
                  /\ syscalls' = syscalls \o AbsCalls(args.androidManifestFilepath)
                                          \o AbsCalls(args.outputDir)
                  /\ pc' = "toolchain"
                  /\ UNCHANGED <<stderr, exitCode>>
    /\ UNCHANGED <<argv, env, toRemove, readdir, denied, dirs, files, t, child, started, finished,
                   usage, removeErr, javaFound>>

\* t, err := newToolchain(args.androidHome)
ResolveToolchain ==
    /\ pc = "toolchain"
    /\ \E wdOk \in BOOLEAN :
         LET r == newToolchain(args.androidHome, wdOk)
         IN  /\ t' = r.t
             /\ syscalls' = syscalls \o r.calls
             /\ IF r.err # Nil
                THEN Fatal(Sprintf(<<"could not ascertain toolchain due to error: ", "%v", "\n">>,
                                   <<r.err>>))
                ELSE /\ pc' = "mkdirs"
                     /\ UNCHANGED <<stderr, exitCode>>
    /\ UNCHANGED <<argv, env, toRemove, readdir, denied, dirs, files, args, child, started, finished,
                   usage, removeErr, javaFound>>

\* the same statement in the earlier build program, where the index of the last
\* entry of an empty listing panics: the Go runtime writes the panic and exits with 2
ResolveToolchainLegacy ==
    /\ pc = "toolchain"
    /\ \E wdOk \in BOOLEAN :
         LET r == newToolchainLegacy(args.androidHome, wdOk)
         IN  /\ t' = r.t
             /\ syscalls' = syscalls \o r.calls
             /\ IF r.panic
                THEN /\ stderr' = Append(stderr, r.err)
                     /\ exitCode' = 2
                     /\ pc' = "exited"
                ELSE IF r.err # Nil
                THEN Fatal(Sprintf(<<"Could not ascertain toolchain due to error: ", "%v", "\n">>,
                                   <<r.err>>))
                ELSE /\ pc' = "mkdirs"
                     /\ UNCHANGED <<stderr, exitCode>>
    /\ UNCHANGED <<argv, env, toRemove, readdir, denied, dirs, files, args, child, started, finished,
                   usage, removeErr, javaFound>>

\* makeOutputDirs(tmpDirs...)
MakeOutputDirs ==
    /\ pc = "mkdirs"
    /\ \E fault \in 0..Len(tmpDirs) :
         LET r == makeOutputDirs(tmpDirs, fault)
         IN  /\ dirs' = r.dirs
             /\ syscalls' = syscalls \o r.calls
             /\ IF r.err # Nil
                THEN Fatal(Sprintf(<<"could not create output directories due to error: ", "%v", "\n">>,
                                   <<r.err>>))
                ELSE /\ pc' = StepPc(1)
                     /\ UNCHANGED <<stderr, exitCode>>
    /\ UNCHANGED <<argv, env, toRemove, readdir, denied, files, args, t, child, started, finished,
                   usage, removeErr, javaFound>>

\* a main that writes the message of a failed step and goes on to the next step
StepFailsWithoutExit(k, err) ==
    /\ stderr' = Append(stderr, Sprintf(<<StepMessage(k), "%v", "\n">>, <<err>>))
    /\ pc' = StepPc(k + 1)
    /\ UNCHANGED exitCode

\* step k returning err to main, which writes its message and exits
StepFails(k, err) == Fatal(Sprintf(<<StepMessage(k), "%v", "\n">>, <<err>>))

\* t.run(command) called by step k, up to the start of the child process; before
\* are the system calls the step made ahead of it
run(k, command, inPath, before) ==
    LET c == CommandLine(command)
        e == LaunchErr(c.name, inPath)
    IN  /\ started' = Append(started, k)
        /\ syscalls' = syscalls \o before \o <<Call("exec", c.name)>>
        /\ IF e # Nil
           THEN /\ StepFails(k, RunErr(command, e))
                /\ child' = NoChild
           ELSE /\ child' = [step |-> k, command |-> command, name |-> c.name, args |-> c.args]
                /\ pc' = "wait"
                /\ UNCHANGED <<stderr, exitCode>>

GenerateResourceBindings ==
    /\ pc = StepPc(1)
    /\ run(1, generateJavaFileForAndroidResources(t,
                args.outputDir \o <<"/">> \o outputDirForGeneratedSourceFiles,
                args.androidManifestFilepath, args.xmlResourcesFilepath), TRUE, << >>)
    /\ UNCHANGED <<argv, env, toRemove, readdir, denied, dirs, files, args, t, finished, usage,
                   removeErr, javaFound>>

\* the names below a root, which a walk of it meets
NamesBelow(root) ==
    {Base(q) : q \in {x \in dirs \cup files : x # Resolve(root) /\ Under(x, Resolve(root))}}

CompileSources ==
    /\ pc = StepPc(2)
    /\ \E inPath \in BOOLEAN :
       \E ord \in Orders(NamesBelow(args.javaSourcesFilepath)
                         \cup NamesBelow(outputDirForGeneratedSourceFiles)) :
         LET j == findJavaSourceFiles(args.javaSourcesFilepath, ord)
             jj == findJavaSourceFiles(outputDirForGeneratedSourceFiles, ord)
             javaFiles == JoinSpace(j.paths \o jj.paths)
             wrap(e) == Sprintf(<<"could not find java source files to compile due to error: ", "%v">>,
                                <<e>>)
         IN  IF j.err # Nil
             THEN /\ StepFails(2, wrap(j.err))
                  /\ started' = Append(started, 2)
                  /\ javaFound' = j
                  /\ syscalls' = Append(syscalls, Call("lstat", args.javaSourcesFilepath))
                  /\ UNCHANGED child
             ELSE IF jj.err # Nil
             THEN /\ StepFails(2, wrap(jj.err))
                  /\ started' = Append(started, 2)
                  /\ javaFound' = jj
                  /\ syscalls' = syscalls \o <<Call("lstat", args.javaSourcesFilepath),
                                                Call("lstat", outputDirForGeneratedSourceFiles)>>
                  /\ UNCHANGED child
             ELSE /\ run(2, compileJavaSourceFilesToJavaVirtualMachineBytecode(t,
                              args.javaSourcesFilepath, outputDirForGeneratedSourceFiles,
                              outputDirForBytecode, javaFiles), inPath,
                              <<Call("lstat", args.javaSourcesFilepath),
                                Call("lstat", outputDirForGeneratedSourceFiles)>>)
                  /\ javaFound' = [paths |-> j.paths \o jj.paths, err |-> Nil]
    /\ UNCHANGED <<argv, env, toRemove, readdir, denied, dirs, files, args, t, finished, usage, removeErr>>

TranslateBytecode ==
    /\ pc = StepPc(3)
    /\ run(3, translateJavaVirtualMachineMBytecodeToAndroidRuntimeBytecode(t,
                outputDexFilepath, outputDirForBytecode), TRUE, << >>)
    /\ UNCHANGED <<argv, env, toRemove, readdir, denied, dirs, files, args, t, finished, usage,
                   removeErr, javaFound>>

PackageResources ==
    /\ pc = StepPc(4)
    /\ run(4, createUnalignedAndroidApplicationPackage(t, args.androidManifestFilepath,
                args.xmlResourcesFilepath, filepathOfUnalignedAPK), TRUE, << >>)
    /\ UNCHANGED <<argv, env, toRemove, readdir, denied, dirs, files, args, t, finished, usage,
                   removeErr, javaFound>>

InjectBytecode ==
    /\ pc = StepPc(5)
    /\ run(5, addAndroidRuntimeBytecodeToAndroidApplicationPackage(t, filepathOfUnalignedAPK,
                outputDexFilepath), TRUE, << >>)
    /\ UNCHANGED <<argv, env, toRemove, readdir, denied, dirs, files, args, t, finished, usage,
                   removeErr, javaFound>>

Sign ==
    /\ pc = StepPc(6)
    /\ \E inPath \in BOOLEAN :
         run(6, signAndroidApplicationPackageWithDebugKey(t, filepathOfUnalignedAPK), inPath,
             <<Call("getenv", <<"HOME">>)>>)
    /\ UNCHANGED <<argv, env, toRemove, readdir, denied, dirs, files, args, t, finished, usage,
                   removeErr, javaFound>>

Align ==
    /\ pc = StepPc(7)
    /\ run(7, alignUncompressedDataInZipFileToFourByteBoundariesForFasterMemoryMappingAtRuntime(t,
                filepathOfUnalignedAPK, filepathOfAPK), TRUE, << >>)
    /\ UNCHANGED <<argv, env, toRemove, readdir, denied, dirs, files, args, t, finished, usage,
                   removeErr, javaFound>>

\* a run that drops the error of cmd.Run
ChildExitsIgnoringStatus ==
    /\ pc = "wait"
    /\ \E status \in {0, 1} :
         /\ status = 0 => ToolCanSucceed(child)
         /\ files' = IF status = 0 THEN files \cup ToolOutput(child) ELSE files
         /\ finished' = IF status = 0 THEN Append(finished, child.step) ELSE finished
         /\ pc' = StepPc(child.step + 1)
    /\ child' = NoChild
    /\ UNCHANGED <<argv, env, toRemove, readdir, denied, dirs, args, t, started, usage, syscalls,
                   removeErr, javaFound, stderr, exitCode>>

\* cmd.Run returning in run: the child has exited, with status 0 and its output
\* written, or with another status, which run returns as an error
ChildExits ==
    /\ pc = "wait"
    /\ \E status \in {0, 1} :
         /\ status = 0 => ToolCanSucceed(child)
         /\ IF status = 0
            THEN /\ files' = files \cup ToolOutput(child)
                 /\ finished' = Append(finished, child.step)
                 /\ pc' = StepPc(child.step + 1)
                 /\ UNCHANGED <<stderr, exitCode>>
            ELSE /\ StepFails(child.step, RunErr(child.command, <<"exit status 1">>))
                 /\ UNCHANGED <<files, finished>>
    /\ child' = NoChild
    /\ UNCHANGED <<argv, env, toRemove, readdir, denied, dirs, args, t, started, usage, syscalls,
                   removeErr, javaFound>>

\* remove(classes.dex, app.apk.unaligned, tmpDirs...), whose result main drops,
\* and main returning
Remove ==
    /\ pc = StepPc(8)
    /\ \E fault \in 0..Len(toRemove) :
         LET r == remove(toRemove, fault)
         IN  /\ dirs' = r.dirs
             /\ files' = r.files
             /\ syscalls' = syscalls \o r.calls
             /\ removeErr' = r.err
    /\ started' = Append(started, 8)
    /\ exitCode' = 0
    /\ pc' = "exited"
    /\ UNCHANGED <<argv, env, toRemove, readdir, denied, args, t, child, finished, stderr, usage, javaFound>>

Next ==
    \/ ParseFlags
    \/ AbsolutizePaths
    \/ ResolveToolchain
    \/ MakeOutputDirs
    \/ GenerateResourceBindings
    \/ CompileSources
    \/ TranslateBytecode
    \/ PackageResources
    \/ InjectBytecode
    \/ Sign
    \/ Align
    \/ ChildExits
    \/ Remove

Spec == Init /\ [][Next]_vars

SpecResolve == InitResolve /\ [][Next]_vars

----------------------------------------------------------------------------
(* File discovery on its own, over every source tree of at most MaxNodes entries. *)

WalkRoot == <<"src">>

\* the names of the entries: a Java source name, another suffix, and a name that
\* ends in java without the dot
WalkNames ==
    {<<"A", ".", "j", "a", "v", "a">>, <<"b", ".", "t", "x", "t">>, <<"C", "j", "a", "v", "a">>}

\* the location of entry i of a tree (0 is the root)
RECURSIVE NodePath(_, _, _)
NodePath(parent, name, i) ==
    IF i = 0 THEN Resolve(WalkRoot)
    ELSE NodePath(parent, name, parent[i]) \o <<"/">> \o name[i]

\* a tree of n entries: each entry lies in the root or in an earlier entry that is
\* a directory, no two entries are the same path, and errAt is the entry access to
\* which is refused (0: the root, -1: none)
InitWalk ==
    /\ \E n \in 0..MaxNodes :
       \E parent \in [1..n -> 0..MaxNodes], name \in [1..n -> WalkNames],
          isDir \in [1..n -> BOOLEAN], errAt \in -1..n :
         /\ \A i \in 1..n :
               IF parent[i] = 0 THEN TRUE ELSE parent[i] < i /\ isDir[parent[i]]
         /\ \A i, j \in 1..n :
               i # j => NodePath(parent, name, i) # NodePath(parent, name, j)
         /\ dirs = {Cwd, Resolve(WalkRoot)}
                    \cup {NodePath(parent, name, i) : i \in {x \in 1..n : isDir[x]}}
         /\ files = {NodePath(parent, name, i) : i \in {x \in 1..n : ~isDir[x]}}
         /\ denied = {NodePath(parent, name, i) : i \in {x \in 0..n : x = errAt}}
    /\ readdir = [d \in {} |-> << >>]
    /\ argv = [sdk |-> << >>, manifest |-> << >>, xml |-> << >>, java |-> WalkRoot, out |-> << >>]
    /\ env = [n \in {} |-> << >>]
    /\ pc = "walk"
    /\ args = [androidHome |-> << >>, androidManifestFilepath |-> << >>,
               xmlResourcesFilepath |-> << >>, javaSourcesFilepath |-> WalkRoot,
               outputDir |-> << >>]
    /\ t = toolchain
    /\ child = NoChild
    /\ started = << >>
    /\ finished = << >>
    /\ exitCode = Running
    /\ stderr = << >>
    /\ usage = FALSE
    /\ syscalls = << >>
    /\ removeErr = Nil
    /\ javaFound = [paths |-> << >>, err |-> Nil]
    /\ toRemove = <<outputDexFilepath, filepathOfUnalignedAPK>> \o tmpDirs

\* j, err := findJavaSourceFiles(javaSourcesFilepath), the directories read in any order
FindJavaSourceFiles ==
    /\ pc = "walk"
    /\ \E ord \in Orders(NamesBelow(args.javaSourcesFilepath)) :
         javaFound' = findJavaSourceFiles(args.javaSourcesFilepath, ord)
    /\ pc' = "walked"
    /\ UNCHANGED <<argv, env, toRemove, readdir, denied, dirs, files, args, t, child, started,
                   finished, exitCode, stderr, usage, syscalls, removeErr>>

NextWalk == FindJavaSourceFiles

SpecWalk == InitWalk /\ [][NextWalk]_vars

----------------------------------------------------------------------------
(* remove on its own, as main calls it after step 7, over every list of paths *)
(* and every state of the working directory.                                   *)

\* the names remove is given
RemoveNames == {outputDexFilepath, filepathOfUnalignedAPK,
                outputDirForGeneratedSourceFiles, outputDirForBytecode}

\* the lists of paths: that of main, and every list of at most MaxPaths names
RemoveLists ==
    {<<outputDexFilepath, filepathOfUnalignedAPK>> \o tmpDirs}
    \cup UNION {[1..n -> RemoveNames] : n \in 0..MaxPaths}

\* the entry below a directory of the working directory
Content(name) == Join(Join(Cwd, name), <<"x">>)

\* main after step 7 has returned: each name is missing from the working
\* directory, a file, or a directory with an entry in it, and access to at most
\* one of them is refused
InitRemove ==
    /\ \E kind \in [RemoveNames -> {"missing", "file", "dir"}] :
         /\ dirs = {Cwd} \cup {Join(Cwd, n) : n \in {x \in RemoveNames : kind[x] = "dir"}}
         /\ files = {Join(Cwd, n) : n \in {x \in RemoveNames : kind[x] = "file"}}
                     \cup {Content(n) : n \in {x \in RemoveNames : kind[x] = "dir"}}
    /\ \E D \in SUBSET {Join(Cwd, n) : n \in RemoveNames} :
         Cardinality(D) <= 1 /\ denied = D
    /\ toRemove \in RemoveLists
    /\ readdir = [d \in {} |-> << >>]
    /\ argv = [sdk |-> SdkRoot, manifest |-> <<"AndroidManifest.xml">>, xml |-> <<"xml">>,
               java |-> <<"java">>, out |-> << >>]
    /\ env = [n \in {} |-> << >>]
    /\ pc = StepPc(8)
    /\ args = [androidHome |-> SdkRoot,
               androidManifestFilepath |-> Join(Cwd, <<"AndroidManifest.xml">>),
               xmlResourcesFilepath |-> <<"xml">>, javaSourcesFilepath |-> <<"java">>,
               outputDir |-> Cwd]
    /\ t = toolchain
    /\ child = NoChild
    /\ started = [i \in 1..7 |-> i]
    /\ finished = [i \in 1..7 |-> i]
    /\ exitCode = Running
    /\ stderr = << >>
    /\ usage = FALSE
    /\ syscalls = << >>
    /\ removeErr = Nil
    /\ javaFound = [paths |-> << >>, err |-> Nil]

NextRemove == Remove

SpecRemove == InitRemove /\ [][NextRemove]_vars

\* the earlier build program up to its toolchain resolution
NextLegacy ==
    \/ ParseFlags
    \/ AbsolutizePaths
    \/ ResolveToolchainLegacy

SpecLegacy == InitResolve /\ [][NextLegacy]_vars

----------------------------------------------------------------------------
(* The pipeline. *)

\* the steps 1..n in their order
Steps(n) == [i \in 1..n |-> i]

Last(s) == s[Len(s)]

\* step k was started and has returned an error
StepFailed(k) ==
    /\ k \in Range(started)
    /\ k \notin Range(finished)
    /\ child.step # k

\* C1: the steps started are a prefix of 1, 2, ..., 8 in that order, none twice and
\* none skipped, and a step is started only when every step before it has returned
\* without an error.
C1_StepsInOrder ==
    /\ Len(started) <= 8
    /\ started = Steps(Len(started))
    /\ finished = Steps(Len(finished))
    /\ Len(finished) <= 7
    /\ started # << >> => Len(finished) \in {Len(started) - 1, Len(started)}
    /\ started = << >> => finished = << >>

C1_Witness ==
    /\ started = Steps(8)
    /\ finished = Steps(7)
    /\ exitCode = 0

\* C2: once a step k of 1..7 has failed (its process exited with another status
\* than 0 or could not be started), no later step is ever started, the process has
\* exited with status 1, and the last message on the error stream is that of step k.
C2_FailFast ==
    \A k \in 1..7 :
        StepFailed(k) =>
            /\ Last(started) = k
            /\ \A j \in (k + 1)..8 : j \notin Range(started)
            /\ pc = "exited"
            /\ exitCode = 1
            /\ ~ENABLED Next
            /\ stderr # << >>
            /\ Last(stderr)[1] = StepMessage(k)

C2_Witness ==
    /\ StepFailed(3)
    /\ Contains(Last(stderr), <<"exit status 1">>)
    /\ finished = Steps(2)

\* C3: when steps 1 to 7 have all succeeded, cleanup has met no error and the
\* process has ended, then whatever the -out flag was, the generated-source
\* directory, the bytecode-class directory, the unaligned archive and the
\* translated-bytecode file of the output directory are gone, and the aligned
\* archive is in the output directory.
C3_CleanAfterSuccess ==
    (pc = "exited" /\ finished = Steps(7) /\ removeErr = Nil) =>
        /\ ~Exists(Join(args.outputDir, outputDirForGeneratedSourceFiles))
        /\ ~Exists(Join(args.outputDir, outputDirForBytecode))
        /\ ~Exists(Join(args.outputDir, filepathOfUnalignedAPK))
        /\ ~Exists(Join(args.outputDir, outputDexFilepath))
        /\ Join(args.outputDir, filepathOfAPK) \in files

\* the part of C3 that the code keeps: after such a run the aligned archive is in
\* the working directory
C3_ArchiveInWorkingDirectory ==
    (pc = "exited" /\ finished = Steps(7)) => Join(Cwd, filepathOfAPK) \in files

\* C7: with no -sdk flag and ANDROID_HOME unset or empty, main prints the usage and
\* exits with status 1 having looked at nothing but the environment: no toolchain
\* resolved, no directory made, no step started; and with an -sdk flag,
\* ANDROID_HOME is never looked up.
C7_NoSdkLocation ==
    /\ (pc # "start" /\ argv.sdk = << >> /\ Getenv("ANDROID_HOME") = << >>) =>
          /\ pc = "exited"
          /\ exitCode = 1
          /\ usage
          /\ Len(stderr) = 1
          /\ syscalls = <<Call("getenv", <<"ANDROID_HOME">>)>>
          /\ t = toolchain
          /\ started = << >>
          /\ ~ENABLED Next
    /\ argv.sdk # << >> =>
          \A i \in 1..Len(syscalls) : syscalls[i] # Call("getenv", <<"ANDROID_HOME">>)

C7_Witness ==
    /\ argv.sdk = << >>
    /\ "ANDROID_HOME" \in DOMAIN env
    /\ env["ANDROID_HOME"] = << >>
    /\ usage
    /\ exitCode = 1

\* C8: a run whose steps 1 to 7 succeeded and whose cleanup returned an error
\* ends with status 1 and a message on the error stream; status 0 means that all
\* eight steps succeeded.
C8_CleanupErrorSurfaced ==
    /\ (pc = "exited" /\ finished = Steps(7) /\ removeErr # Nil) =>
          (exitCode = 1 /\ stderr # << >>)
    /\ exitCode = 0 => (finished = Steps(7) /\ started = Steps(8) /\ removeErr = Nil)

\* the part of C8 that the code keeps: status 0 means that steps 1 to 7 succeeded
\* and cleanup was run
C8_ZeroMeansBuilt ==
    exitCode = 0 => (finished = Steps(7) /\ started = Steps(8))

----------------------------------------------------------------------------
(* Toolchain resolution. *)

\* the byte of a character, and of the first character of an atom of several
ByteOf(c) ==
    CASE c = "-" -> 45 [] c = "." -> 46 [] c = "0" -> 48 [] c = "1" -> 49 [] c = "2" -> 50
      [] c = "3" -> 51 [] c = "8" -> 56 [] c = "9" -> 57 [] c = "android-" -> 97

\* a < b in the byte-wise lexicographic order of strings
RECURSIVE LexLess(_, _)
LexLess(a, b) ==
    IF b = << >> THEN FALSE
    ELSE IF a = << >> THEN TRUE
    ELSE IF Head(a) = Head(b) THEN LexLess(Tail(a), Tail(b))
    ELSE ByteOf(Head(a)) < ByteOf(Head(b))

LexGreatest(S) == CHOOSE x \in S : \A y \in S : y = x \/ LexLess(y, x)

\* newToolchain has returned
ResolutionRan == pc \notin {"start", "abs", "toolchain"} /\ t # toolchain

\* newToolchain has returned an error
ResolutionFailed ==
    /\ ResolutionRan
    /\ pc = "exited"
    /\ started = << >>
    /\ stderr # << >>
    /\ Last(stderr)[1] \in {"could not ascertain toolchain due to error: ",
                            "Could not ascertain toolchain due to error: "}

Listed(p) == p \in DOMAIN readdir /\ readdir[p] # << >>

\* C4: when build-tools and platforms both list at least one entry, in whatever
\* order, resolution succeeds and records for each the entry whose name is the
\* greatest in the byte-wise lexicographic order.
C4_GreatestNameSelected ==
    (ResolutionRan /\ Listed(BuildToolsPath) /\ Listed(PlatformsPath)) =>
        /\ ~ResolutionFailed
        /\ t.buildTools = BuildToolsPath \o <<"/">> \o LexGreatest(Range(readdir[BuildToolsPath]))
        /\ t.platform = PlatformsPath \o <<"/">> \o LexGreatest(Range(readdir[PlatformsPath]))

\* what the code does where C4 says the greatest name: the last entry of the
\* listing in the order the directory read returned it
C4_LastListedSelected ==
    (ResolutionRan /\ Listed(BuildToolsPath) /\ Listed(PlatformsPath)) =>
        /\ ~ResolutionFailed
        /\ t.buildTools = BuildToolsPath \o <<"/">> \o Last(readdir[BuildToolsPath])
        /\ t.platform = PlatformsPath \o <<"/">> \o Last(readdir[PlatformsPath])

Calls(op, p) == {i \in 1..Len(syscalls) : syscalls[i] = Call(op, p)}

EmptyBuildTools == BuildToolsPath \in DOMAIN readdir /\ readdir[BuildToolsPath] = << >>

\* C5: with a build-tools directory that has no entries, resolution returns an
\* error that names the condition, platforms is neither opened nor listed, and main
\* exits with status 1 with no directory made and no step started.
C5_EmptyBuildToolsFails ==
    (ResolutionRan /\ EmptyBuildTools) =>
        /\ ResolutionFailed
        /\ exitCode = 1
        /\ \E i \in 1..Len(Last(stderr)) :
              Last(stderr)[i] \in {"no build tools found under '", "No build tools found under '"}
        /\ Calls("open", PlatformsPath) = {}
        /\ Calls("readdir", PlatformsPath) = {}
        /\ \A i \in 1..Len(syscalls) : syscalls[i].op # "mkdir"
        /\ started = << >>

\* the fields of the toolchain struct
PathFields == {"sdk", "buildTools", "platform", "androidLib", "aaptBin", "dxBin"}

\* C9: every path field of the toolchain newToolchain returned, with an error or
\* without, is empty or names something that is there.
C9_PathsExist ==
    ResolutionRan => \A f \in PathFields : t[f] = << >> \/ Exists(t[f])

\* the part of C9 that the code keeps: the directories it has listed an entry of
C9_ListedDirectoriesExist ==
    ResolutionRan => \A f \in {"buildTools", "platform"} : t[f] = << >> \/ Exists(t[f])

\* the directory whose listing made resolution fail
FailedPath ==
    IF ~Listed(BuildToolsPath) THEN BuildToolsPath ELSE PlatformsPath

\* the error of the system call that failed on p, Nil when none did
CauseOf(p) == IF OpenErr(p) # Nil THEN OpenErr(p) ELSE IF ReaddirErr(p) # Nil THEN ReaddirErr(p) ELSE Nil

\* C10: the error of a failed resolution holds the path of the directory that
\* failed and, when a system call failed, its error; and that directory was opened
\* once.
C10_ErrorNamesPath ==
    ResolutionFailed =>
        /\ Contains(Last(stderr), FailedPath)
        /\ CauseOf(FailedPath) # Nil => Contains(Last(stderr), CauseOf(FailedPath))
        /\ Cardinality(Calls("open", FailedPath)) = 1
        /\ Cardinality(Calls("readdir", FailedPath)) <= 1

----------------------------------------------------------------------------
(* File discovery. *)

HasSuffix(name, suffix) ==
    /\ Len(name) >= Len(suffix)
    /\ SubSeq(name, Len(name) - Len(suffix) + 1, Len(name)) = suffix

\* the files at any depth of the walked tree whose name ends in ".java"
JavaFilesBelow(root) ==
    {f \in files : Under(f, Resolve(root)) /\ HasSuffix(Base(f), <<".", "j", "a", "v", "a">>)}

\* C6: over a tree no entry of which raises an error, findJavaSourceFiles returns
\* no error and exactly the files at any depth whose name ends in ".java", each
\* once, no directory and no other file, whatever the order the directories are
\* read in; over a tree with an entry that raises an error it returns an error.
C6_ExactlyTheJavaFiles ==
    pc = "walked" =>
        IF \E d \in denied : Under(d, Resolve(args.javaSourcesFilepath))
        THEN javaFound.err # Nil
        ELSE /\ javaFound.err = Nil
             /\ {Resolve(q) : q \in Range(javaFound.paths)}
                    = JavaFilesBelow(args.javaSourcesFilepath)
             /\ Len(javaFound.paths) = Cardinality(Range(javaFound.paths))
             /\ \A i \in 1..Len(javaFound.paths) :
                    /\ ~IsDir(Resolve(javaFound.paths[i]))
                    /\ SubSeq(javaFound.paths[i], 1, Len(args.javaSourcesFilepath))
                           = args.javaSourcesFilepath

\* a Java file two levels down, below a directory whose own name ends in ".java",
\* has been found, next to a file of another suffix
C6_Witness ==
    /\ pc = "walked"
    /\ javaFound.err = Nil
    /\ \E q \in Range(javaFound.paths) : Len(q) > 13
    /\ \E d \in dirs : HasSuffix(Base(d), <<".", "j", "a", "v", "a">>)
    /\ \E f \in files : HasSuffix(Base(f), <<".", "t", "x", "t">>)

----------------------------------------------------------------------------
(* Removal. *)

\* the calls of a remove that got as far as path k of the list ps and went
\* through with n removals, D being the directories there were before it
RemoveCalls(ps, k, n, D) ==
    [c \in 1..(k + n) |->
        LET j == (c + 1) \div 2
        IN  IF c % 2 = 1 THEN Call("stat", ps[j])
            ELSE Call(IF Resolve(ps[j]) \in D THEN "removeall" ELSE "remove", ps[j])]

\* x is at or below one of the first n paths of ps
Removed(x, ps, n) == \E j \in 1..n : Under(x, Resolve(ps[j]))

\* C11: remove stats and removes its paths one after the other in the order of
\* the list; when it returns no error every path is gone, a directory with all
\* that was below it and a file alone; when the stat or the removal of path i
\* fails it returns an error, the paths before i are gone, nothing after i is
\* stat-ed or removed, and nothing else in the file system has changed.
C11_RemoveFailFast ==
    [][pc = StepPc(8) =>
        LET made == SubSeq(syscalls', Len(syscalls) + 1, Len(syscalls'))
            k == Cardinality({c \in 1..Len(made) : made[c].op = "stat"})
            n == Cardinality({c \in 1..Len(made) : made[c].op # "stat"})
            failing == IF removeErr' = Nil THEN << >> ELSE Resolve(toRemove[k])
            Kept(x) == ~Removed(x, toRemove, k - 1) /\ (failing = << >> \/ ~Under(x, failing))
        IN  /\ k <= Len(toRemove)
            /\ n \in {k - 1, k}
            /\ made = RemoveCalls(toRemove, k, n, dirs)
            /\ IF removeErr' = Nil
               THEN /\ k = Len(toRemove) /\ n = k
                    /\ dirs' = {d \in dirs : ~Removed(d, toRemove, k)}
                    /\ files' = {f \in files : ~Removed(f, toRemove, k)}
               ELSE /\ k >= 1
                    /\ \A x \in dirs' \cup files' : ~Removed(x, toRemove, k - 1)
                    /\ {d \in dirs' : Kept(d)} = {d \in dirs : Kept(d)}
                    /\ {f \in files' : Kept(f)} = {f \in files : Kept(f)}
                    /\ \A j \in (k + 1)..Len(toRemove) :
                          ~Removed(Resolve(toRemove[j]), toRemove, k - 1) =>
                              /\ (Resolve(toRemove[j]) \in dirs') = (Resolve(toRemove[j]) \in dirs)
                              /\ (Resolve(toRemove[j]) \in files') = (Resolve(toRemove[j]) \in files)]_vars

\* the list of main, the removal of its third path has failed: the two files
\* before it are gone, the generated-source directory and the bytecode-class
\* directory after it are still there with what they held
C11_Witness ==
    /\ pc = "exited"
    /\ toRemove = <<outputDexFilepath, filepathOfUnalignedAPK>> \o tmpDirs
    /\ Contains(removeErr, <<"could not remove directory at '">>)
    /\ Len(syscalls) = 6
    /\ Join(Cwd, outputDexFilepath) \notin files
    /\ Join(Cwd, filepathOfUnalignedAPK) \notin files
    /\ Content(outputDirForGeneratedSourceFiles) \in files
    /\ Content(outputDirForBytecode) \in files

----------------------------------------------------------------------------
(* Directory creation. *)

\* C12: makeOutputDirs leaves every file and directory that is there as it is; a
\* temporary directory that is there already does not stop it, and main goes on
\* to step 1 with both directories there; any other error of the creation makes
\* main write its message and exit with status 1 with no step started.
C12_ExistingDirectoryIsSuccess ==
    [][pc = "mkdirs" =>
        /\ files' = files
        /\ dirs \subseteq dirs'
        /\ \/ /\ pc' = StepPc(1)
              /\ exitCode' = Running
              /\ stderr' = stderr
              /\ dirs' = dirs \cup ({Resolve(tmpDirs[i]) : i \in 1..Len(tmpDirs)} \ files)
              /\ Len(syscalls') = Len(syscalls) + Len(tmpDirs)
           \/ /\ pc' = "exited"
              /\ exitCode' = 1
              /\ started' = << >>
              /\ Last(stderr')[1] = "could not create output directories due to error: "
              /\ ~Contains(Last(stderr'), <<"file exists">>)
              /\ Contains(Last(stderr'), <<"permission denied">>)]_vars

\* step 1 has been started, and not yet returned, in a working directory where
\* an earlier run had left the generated-source directory with a file in it
C12_Witness ==
    /\ started = <<1>>
    /\ finished = << >>
    /\ child.step = 1
    /\ Join(Join(Cwd, outputDirForGeneratedSourceFiles), RJava) \in files
    /\ Cardinality(Calls("mkdir", outputDirForGeneratedSourceFiles)) = 1

----------------------------------------------------------------------------
(* The generated-source directory. *)

\* the locations of the calls op made on a path named name
CallsOn(op, name) ==
    {Resolve(syscalls[i].path) : i \in {x \in 1..Len(syscalls) :
                                          syscalls[x].op = op /\ syscalls[x].path = name}}

\* C13: the directory step 1 has the resource compiler write into is the one
\* makeOutputDirs made; every R.java there is when the Java compiler is started
\* is among the files it is given; and after a run that succeeded and cleaned up
\* no R.java is left.
C13_OneGeneratedSourceDirectory ==
    /\ child.step = 1 =>
          {Resolve(ArgAfter(child.args, "-J"))} = CallsOn("mkdir", outputDirForGeneratedSourceFiles)
    /\ child.step = 2 =>
          \A f \in files : Base(f) = RJava =>
              \E i \in 1..Len(child.args) : Resolve(child.args[i]) = f
    /\ (pc = "exited" /\ started = Steps(8) /\ removeErr = Nil) =>
          \A f \in files : Base(f) # RJava

----------------------------------------------------------------------------
(* The command of a child process. *)

\* the tokens of a command: what lies between its runs of white space
RECURSIVE Tokens(_)
Tokens(s) ==
    LET r == DropSpaces(s)
        S == {i \in 1..Len(r) : IsSpace(r[i])}
        i == CHOOSE x \in S : \A y \in S : x <= y
    IN  IF r = << >> THEN << >>
        ELSE IF S = {} THEN <<r>>
        ELSE <<SubSeq(r, 1, i - 1)>> \o Tokens(SubSeq(r, i, Len(r)))

\* C14: a child process is started with a program name that is not empty and
\* with arguments none of which is empty, one for each token of the command.
C14_NonEmptyArguments ==
    child # NoChild =>
        /\ child.name # << >>
        /\ \A i \in 1..Len(child.args) : child.args[i] # << >>
        /\ <<child.name>> \o child.args = Tokens(child.command)

\* what the code keeps of C14: the program name is not empty, and the arguments
\* that are not empty are the tokens of the command after the name
C14_NonEmptyProgram ==
    child # NoChild =>
        /\ child.name # << >>
        /\ <<child.name>> \o SelectSeq(child.args, LAMBDA a : a # << >>) = Tokens(child.command)

====
